---------------------------- MODULE Spec2Model ----------------------------
(***************************************************************************)
(* Model of the concertvenues ingestion pipeline: the SQLite store         *)
(* (concertvenues/db.py), the scrape orchestrator (concertvenues/cli.py)   *)
(* and the values the adapters hand to it.                                 *)
(*                                                                         *)
(* Python values: a date is <<y, m, d>>, a time is <<h, mi>>, None where a *)
(* date or time is optional is <<>>, an optional string is <<>> or <<s>>.  *)
(* SQL values: TEXT is a sequence of character codes, NULL is <<>>.        *)
(***************************************************************************)
EXTENDS Integers, Sequences, FiniteSets, TLC

VARIABLES
    venues,     \* table venues: set of rows [key, name, city, url]
    events,     \* table events: set of rows, see EventRow
    seq,        \* sqlite_sequence of table events (the last rowid taken)
    today,      \* date.today()
    call,       \* the last call made on the db module or on an adapter, see NoCall
    pc,         \* where _scrape is: "idle", "loop", "venue", "fetch", "upsert", "done", "exit"
    enabled_venues, \* the keys of the enabled [venues.<key>] sections of the run
    targets,    \* the run's targets, in the order of the for loop
    idx,        \* index in targets of the venue the loop is at
    status,     \* per venue: "None", "Pending", "Running", "Succeeded", "Failed"
    fetched,    \* the list fetch_events returned for the running venue
    pos,        \* index in fetched of the next event to upsert
    outcomes,   \* what the run printed per venue, in order
    pruned,     \* number of delete_past_events calls of the run
    removed,    \* what the run's delete_past_events returned
    snap,       \* the events of the running (or last) venue when it started
    committed   \* per venue, the events upsert_event committed in this run

dbvars  == <<venues, events, seq, today, call>>
runvars == <<pc, enabled_venues, targets, idx, status, fetched, pos, outcomes, pruned,
             removed, snap, committed>>
vars    == <<venues, events, seq, today, call, pc, enabled_venues, targets, idx, status,
             fetched, pos, outcomes, pruned, removed, snap, committed>>

-----------------------------------------------------------------------------
(* Bounds *)

\* Largest rowid the model takes: the number of upsert_event calls.
MaxId == 4
\* Number of upsert_event calls made directly on the db module.
MaxCalls == 3
\* Longest list a fetch returns.
MaxFetch == 2
\* Largest days_ahead a query is made with.
MaxDaysAhead == 2

-----------------------------------------------------------------------------
(* Calendar: datetime.date *)

None == <<>>
NULL == <<>>

IsLeap(y) == (y % 4 = 0) /\ ((y % 100 # 0) \/ (y % 400 = 0))

DaysInMonth(y, m) ==
    IF m = 2 THEN (IF IsLeap(y) THEN 29 ELSE 28)
    ELSE IF m \in {4, 6, 9, 11} THEN 30 ELSE 31

DaysBeforeYear(y) ==
    LET p == y - 1 IN p * 365 + (p \div 4) - (p \div 100) + (p \div 400)

RECURSIVE DaysBeforeMonth(_, _)
DaysBeforeMonth(y, m) ==
    IF m = 1 THEN 0 ELSE DaysBeforeMonth(y, m - 1) + DaysInMonth(y, m - 1)

\* date.toordinal()
toordinal(d) == DaysBeforeYear(d[1]) + DaysBeforeMonth(d[1], d[2]) + d[3]

\* date.fromordinal(n)
fromordinal(n) ==
    LET y == CHOOSE yy \in (n \div 366)..((n \div 365) + 1) :
                 DaysBeforeYear(yy) < n /\ n <= DaysBeforeYear(yy + 1)
        r == n - DaysBeforeYear(y)
        m == CHOOSE mm \in 1..12 :
                 DaysBeforeMonth(y, mm) < r
                 /\ r <= DaysBeforeMonth(y, mm) + DaysInMonth(y, mm)
    IN  <<y, m, r - DaysBeforeMonth(y, m)>>

\* d1 < d2 on datetime.date
DateLess(d1, d2) == toordinal(d1) < toordinal(d2)

\* t1 < t2 on datetime.time
TimeLess(t1, t2) == t1[1] * 60 + t1[2] < t2[1] * 60 + t2[2]

-----------------------------------------------------------------------------
(* Text: isoformat / fromisoformat, and SQLite's comparison of values *)

Digit(n) == 48 + n
Hyphen == 45
Colon == 58

Pad2(n) == <<Digit(n \div 10), Digit(n % 10)>>
Pad4(n) == <<Digit(n \div 1000), Digit((n \div 100) % 10),
             Digit((n \div 10) % 10), Digit(n % 10)>>

\* date.isoformat(): "YYYY-MM-DD"
isoformat_date(d) == Pad4(d[1]) \o <<Hyphen>> \o Pad2(d[2]) \o <<Hyphen>> \o Pad2(d[3])

\* time.isoformat() of a time with no seconds: "HH:MM:00"
isoformat_time(t) == Pad2(t[1]) \o <<Colon>> \o Pad2(t[2]) \o <<Colon>> \o Pad2(0)

Num2(s, i) == (s[i] - 48) * 10 + (s[i + 1] - 48)

\* date.fromisoformat(s)
fromisoformat_date(s) == <<Num2(s, 1) * 100 + Num2(s, 3), Num2(s, 6), Num2(s, 9)>>

\* time.fromisoformat(s)
fromisoformat_time(s) == <<Num2(s, 1), Num2(s, 4)>>

\* a < b for two TEXT values (BINARY collation: memcmp, then length)
TextLess(a, b) ==
    \E i \in 1..Len(b) :
        /\ i <= Len(a) + 1
        /\ \A j \in 1..(i - 1) : a[j] = b[j]
        /\ (i = Len(a) + 1 \/ a[i] < b[i])

\* a < b in SQLite's sort order: NULL sorts before every TEXT
SqlLess(a, b) ==
    IF a = NULL THEN b # NULL
    ELSE IF b = NULL THEN FALSE
    ELSE TextLess(a, b)


-----------------------------------------------------------------------------
(* The values the store is called with *)

\* The adapters that are placeholders: RoyalAlbertHallScraper and
\* UnionChapelScraper, which scrapers/__init__.py does not import.
Unsupported == {"royalalberthall", "unionchapel"}

\* A plausible slip: a placeholder adapter is registered.
SCRAPERS_placeholder == <<"jazzcafe", "koko", "unionchapel">>

\* The keys of SCRAPERS, in the order of the dict.
SCRAPERS == <<"jazzcafe", "koko">>

Registered == {SCRAPERS[i] : i \in 1..Len(SCRAPERS)}

venue_name(key) == IF key = "jazzcafe" THEN "Jazz Cafe" ELSE "KOKO"

Day1 == <<2026, 2, 28>>
Day2 == <<2026, 3, 1>>
Day3 == <<2026, 3, 2>>
Days == {Day1, Day2, Day3}

Urls(key) == IF key = "jazzcafe" THEN {"/e/1", "/e/2"} ELSE {"/e/1"}

\* models.Event, without the id the db layer fills in
Event(key, url, d, t, title, descr, image, onsale, price, soldout) ==
    [venue_key |-> key, title |-> title, date |-> d, url |-> url, time |-> t,
     description |-> descr, image_url |-> image, on_sale_date |-> onsale,
     price |-> price, sold_out |-> soldout]

\* Two settings of the fields that carry no order: all present, all absent.
Full(key, url, d, t) ==
    Event(key, url, d, t, "A", <<"text">>, <<"img">>, Day1, <<"From 30">>, FALSE)
Bare(key, url, d, t) ==
    Event(key, url, d, t, "B", None, None, None, None, TRUE)

\* The dedup keys the model uses.
DedupKeys == UNION {{<<k, u>> : u \in Urls(k)} : k \in Registered}

\* For one dedup key, an event on each of yesterday 23:00, today with no
\* time, today 08:00 and tomorrow 08:00 (as seen from Day2).
Shapes(k, u) ==
    {Full(k, u, Day1, <<23, 0>>), Bare(k, u, Day2, None),
     Full(k, u, Day2, <<8, 0>>), Bare(k, u, Day3, <<8, 0>>)}

\* The events upsert_event is called with directly.
EventInputs == UNION {Shapes(x[1], x[2]) : x \in DedupKeys}

\* models.Venue
Venue(key, name, city, url) == [key |-> key, name |-> name, city |-> city, url |-> url]

VenueInputs == {Venue("koko", venue_name("koko"), "London", "https://koko.co.uk")}

-----------------------------------------------------------------------------
(* concertvenues/db.py *)

\* A plausible slip: the venue row is not written.
upsert_venue_skipped(rows, venue) == rows

\* INSERT INTO venues ... ON CONFLICT(key) DO UPDATE SET name, city, url
upsert_venue(rows, venue) ==
    {r \in rows : r.key # venue.key} \cup {venue}

\* The parameters upsert_event binds to the statement.
EventParams(event) ==
    [venue_key    |-> event.venue_key,
     title        |-> event.title,
     date         |-> isoformat_date(event.date),
     time         |-> IF event.time # None THEN isoformat_time(event.time) ELSE NULL,
     url          |-> event.url,
     description  |-> event.description,
     image_url    |-> event.image_url,
     on_sale_date |-> IF event.on_sale_date # None
                      THEN isoformat_date(event.on_sale_date) ELSE NULL,
     price        |-> event.price,
     sold_out     |-> IF event.sold_out THEN 1 ELSE 0]

\* The rows that conflict with the parameters on UNIQUE(venue_key, url).
Conflict(rows, p) == {r \in rows : r.venue_key = p.venue_key /\ r.url = p.url}

\* A plausible slip: INSERT OR REPLACE, which deletes the conflicting row and
\* inserts the new one under a new id.
upsert_event_replace(rows, id, event) ==
    LET p == EventParams(event)
    IN  (rows \ Conflict(rows, p)) \cup {[id |-> id] @@ p}

\* A plausible slip: ON CONFLICT DO NOTHING, which keeps the stored values.
upsert_event_ignore(rows, id, event) ==
    LET p == EventParams(event)
    IN  IF Conflict(rows, p) = {} THEN rows \cup {[id |-> id] @@ p} ELSE rows

\* A plausible slip: price and sold_out left out of DO UPDATE SET.
upsert_event_stale(rows, id, event) ==
    LET p == EventParams(event)
        hit == Conflict(rows, p)
    IN  IF hit = {}
        THEN rows \cup {[id |-> id] @@ p}
        ELSE (rows \ hit) \cup
             {[r EXCEPT !.title = p.title, !.date = p.date, !.time = p.time,
                        !.description = p.description, !.image_url = p.image_url,
                        !.on_sale_date = p.on_sale_date] : r \in hit}

\* INSERT INTO events ... ON CONFLICT(venue_key, url) DO UPDATE SET the eight
\* other columns. id is the rowid AUTOINCREMENT has for a new row.
upsert_event(rows, id, event) ==
    LET p == EventParams(event)
        hit == Conflict(rows, p)
    IN  IF hit = {}
        THEN rows \cup {[id |-> id] @@ p}
        ELSE (rows \ hit) \cup
             {[r EXCEPT !.title = p.title, !.date = p.date, !.time = p.time,
                        !.description = p.description, !.image_url = p.image_url,
                        !.on_sale_date = p.on_sale_date, !.price = p.price,
                        !.sold_out = p.sold_out] : r \in hit}

\* sqlite_sequence after the statement: SQLite takes the next rowid before it
\* looks for a conflict, so an update uses one up as an insert does.
next_seq(sq) == sq + 1

\* A plausible slip: <= for <, which also deletes today's events.
delete_past_events_inclusive(rows, td) ==
    {r \in rows : SqlLess(isoformat_date(td), r.date)}

\* DELETE FROM events WHERE date < today: the rows that stay.
delete_past_events(rows, td) ==
    {r \in rows : ~SqlLess(r.date, isoformat_date(td))}

\* cursor.rowcount of that DELETE
rowcount(rows, td) == Cardinality(rows) - Cardinality(delete_past_events(rows, td))

row_to_event(row) ==
    [id           |-> row.id,
     venue_key    |-> row.venue_key,
     title        |-> row.title,
     date         |-> fromisoformat_date(row.date),
     time         |-> IF row.time # NULL THEN fromisoformat_time(row.time) ELSE None,
     url          |-> row.url,
     description  |-> row.description,
     image_url    |-> row.image_url,
     on_sale_date |-> IF row.on_sale_date # NULL
                      THEN fromisoformat_date(row.on_sale_date) ELSE None,
     price        |-> row.price,
     sold_out     |-> row.sold_out # 0]

\* A plausible slip: ORDER BY date alone.
OrderBefore_date(a, b) == SqlLess(a.date, b.date)

\* ORDER BY date, time: row a sorts strictly before row b
OrderBefore(a, b) ==
    SqlLess(a.date, b.date) \/ (a.date = b.date /\ SqlLess(a.time, b.time))

\* A plausible slip: < for <=, which leaves out the last day of the window.
InWindow_exclusive(row, start, end) == ~SqlLess(row.date, start) /\ SqlLess(row.date, end)

\* WHERE date >= start AND date <= end
InWindow(row, start, end) == ~SqlLess(row.date, start) /\ ~SqlLess(end, row.date)

\* The lists get_upcoming_events can return: the rows of the window in an
\* order ORDER BY date, time allows (rows equal on both come in any order).
get_upcoming_events(rows, td, from_date, days_ahead) ==
    LET start == isoformat_date(IF from_date # None THEN from_date ELSE td)
        end   == isoformat_date(fromordinal(toordinal(fromisoformat_date(start)) + days_ahead))
        sel   == {r \in rows : InWindow(r, start, end)}
        n     == Cardinality(sel)
    IN  {[i \in 1..n |-> row_to_event(s[i])] :
            s \in {f \in [1..n -> sel] :
                     /\ \A i, j \in 1..n : i # j => f[i] # f[j]
                     /\ \A i, j \in 1..n : i < j => ~OrderBefore(f[j], f[i])}}

-----------------------------------------------------------------------------
(* State *)

NoCall == [op |-> "none", event |-> <<>>, hit |-> FALSE, count |-> 0,
           window |-> <<>>, result |-> <<>>,
           key |-> "", source |-> <<>>, raised |-> FALSE]

NoStatus == [k \in Registered |-> "None"]
NoCommitted == [k \in Registered |-> {}]

Init ==
    /\ venues = {}
    /\ events = {}
    /\ seq = 0
    /\ today = Day2
    /\ call = NoCall
    /\ pc = "idle"
    /\ enabled_venues = {}
    /\ targets = <<>>
    /\ idx = 1
    /\ status = NoStatus
    /\ fetched = <<>>
    /\ pos = 1
    /\ outcomes = <<>>
    /\ pruned = 0
    /\ removed = 0
    /\ snap = {}
    /\ committed = NoCommitted

\* A day passes between two runs.
Tick ==
    /\ pc \in {"idle", "done", "exit"}
    /\ today # Day3
    /\ today' = fromordinal(toordinal(today) + 1)
    /\ UNCHANGED <<venues, events, seq, call>>
    /\ UNCHANGED runvars

-----------------------------------------------------------------------------
(* The db module called directly *)

CallUpsertVenue(venue) ==
    /\ venues' = upsert_venue(venues, venue)
    /\ call' = [NoCall EXCEPT !.op = "upsert_venue"]
    /\ UNCHANGED <<events, seq, today>>
    /\ UNCHANGED runvars

CallUpsertEvent(event) ==
    /\ seq < MaxCalls
    /\ events' = upsert_event(events, seq + 1, event)
    /\ seq' = next_seq(seq)
    /\ call' = [NoCall EXCEPT !.op = "upsert_event", !.event = <<event>>,
                              !.hit = (Conflict(events, EventParams(event)) # {})]
    /\ UNCHANGED <<venues, today>>
    /\ UNCHANGED runvars

CallDeletePastEvents ==
    /\ events' = delete_past_events(events, today)
    /\ call' = [NoCall EXCEPT !.op = "delete_past_events",
                              !.count = rowcount(events, today)]
    /\ UNCHANGED <<venues, seq, today>>
    /\ UNCHANGED runvars

CallGetUpcomingEvents(from_date, days_ahead) ==
    /\ \E res \in get_upcoming_events(events, today, from_date, days_ahead) :
          call' = [NoCall EXCEPT !.op = "get_upcoming_events",
                                 !.window = <<from_date, days_ahead>>,
                                 !.result = res]
    /\ UNCHANGED <<venues, events, seq, today>>
    /\ UNCHANGED runvars

NextDb ==
    \/ \E venue \in VenueInputs : CallUpsertVenue(venue)
    \/ \E event \in EventInputs : CallUpsertEvent(event)
    \/ CallDeletePastEvents
    \/ \E from_date \in {None, Day1}, days_ahead \in 0..MaxDaysAhead :
          CallGetUpcomingEvents(from_date, days_ahead)

SpecDb == Init /\ [][NextDb]_vars

-----------------------------------------------------------------------------
(* What the adapters return *)

\* JazzCafeScraper.fetch_events builds title, date, url, time, price and
\* sold_out; KokoScraper.fetch_events builds title, date, url and sold_out.
AdapterShapes(k, u) ==
    IF k = "jazzcafe"
    THEN {Event(k, u, Day2, <<19, 0>>, "A", None, None, None, <<"From 30">>, FALSE),
          Event(k, u, Day3, None, "B", None, None, None, None, TRUE)}
    ELSE {Event(k, u, Day2, None, "A", None, None, None, None, FALSE),
          Event(k, u, Day3, None, "B", None, None, None, None, TRUE)}

\* Every adapter skips the items dated before today.
Candidates(k, td) ==
    {e \in UNION {AdapterShapes(k, u) : u \in Urls(k)} : ~DateLess(e.date, td)}

\* The sort key of events.sort: (e.date, e.time or time.min) in Jazz Cafe,
\* e.date in KOKO.
SortKeyLeq(k, a, b) ==
    \/ DateLess(a.date, b.date)
    \/ /\ a.date = b.date
       /\ \/ k # "jazzcafe"
          \/ ~TimeLess(IF b.time = None THEN <<0, 0>> ELSE b.time,
                       IF a.time = None THEN <<0, 0>> ELSE a.time)

\* The lists fetch_events of venue k can return: sorted, and in KOKO with no
\* URL twice (seen_urls). A placeholder adapter raises NotImplementedError
\* and returns no list.
FetchResults(k, td) ==
    IF k \in Unsupported THEN {}
    ELSE
    {s \in UNION {[1..n -> Candidates(k, td)] : n \in 0..MaxFetch} :
        /\ \A i, j \in 1..Len(s) : i < j => SortKeyLeq(k, s[i], s[j])
        /\ k = "koko" => \A i, j \in 1..Len(s) : i # j => s[i].url # s[j].url}

-----------------------------------------------------------------------------
(* The adapters' year inference *)

\* date(y, m, d) does not raise ValueError
ValidDate(y, m, d) == m \in 1..12 /\ d >= 1 /\ d <= DaysInMonth(y, m)

\* What a call comes to: a value returned, or an exception.
Returns(v) == [raised |-> FALSE, value |-> v]
Raises == [raised |-> TRUE, value |-> None]

\* The window of the year inference, in days.
RollDays == 60

\* A plausible slip: >= for >, which rolls a date of exactly 60 days ago.
jazzcafe_parse_date_geq(frag, reference) ==
    LET year == reference[1]
        candidate == <<year, frag[1], frag[2]>>
    IN  IF ~ValidDate(year, frag[1], frag[2]) THEN Returns(None)
        ELSE IF toordinal(reference) - toordinal(candidate) >= RollDays
             THEN (IF ValidDate(year + 1, frag[1], frag[2])
                   THEN Returns(<<year + 1, frag[1], frag[2]>>) ELSE Raises)
             ELSE Returns(candidate)

\* jazzcafe._parse_date for a text that holds day frag[2] and month frag[1]:
\* date(year, month, day) is guarded by try/except ValueError, the
\* date(year + 1, month, day) of the roll forward is not.
jazzcafe_parse_date(frag, reference) ==
    LET year == reference[1]
        candidate == <<year, frag[1], frag[2]>>
    IN  IF ~ValidDate(year, frag[1], frag[2]) THEN Returns(None)
        ELSE IF toordinal(reference) - toordinal(candidate) > RollDays
             THEN (IF ValidDate(year + 1, frag[1], frag[2])
                   THEN Returns(<<year + 1, frag[1], frag[2]>>) ELSE Raises)
             ELSE Returns(candidate)

\* electricballroom._parse_date: dateutil fills the year from the current
\* date (the reference of the only caller) and raises on a day the month
\* does not have; candidate.replace(year=...) raises likewise.
electricballroom_parse_date(frag, reference) ==
    LET year == reference[1]
        candidate == <<year, frag[1], frag[2]>>
    IN  IF ~ValidDate(year, frag[1], frag[2]) THEN Raises
        ELSE IF toordinal(reference) - toordinal(candidate) > RollDays
             THEN (IF ValidDate(year + 1, frag[1], frag[2])
                   THEN Returns(<<year + 1, frag[1], frag[2]>>) ELSE Raises)
             ELSE Returns(candidate)

\* koko._parse_koko_date: the first of this year's and next year's date
\* that is not before today.
parse_koko_date(frag, td) ==
    LET ok(y) == ValidDate(y, frag[1], frag[2])
                 /\ ~DateLess(<<y, frag[1], frag[2]>>, td)
    IN  IF ok(td[1]) THEN Returns(<<td[1], frag[1], frag[2]>>)
        ELSE IF ok(td[1] + 1) THEN Returns(<<td[1] + 1, frag[1], frag[2]>>)
        ELSE Returns(None)

\* The adapters that infer a year.
YearInferring == {"jazzcafe", "electricballroom", "koko"}

parse_date(k, frag, reference) ==
    IF k = "jazzcafe" THEN jazzcafe_parse_date(frag, reference)
    ELSE IF k = "electricballroom" THEN electricballroom_parse_date(frag, reference)
    ELSE parse_koko_date(frag, reference)

\* Day and month fragments <<month, day>> and reference dates the functions
\* are called with.
Fragments == {<<1, 1>>, <<1, 3>>, <<2, 28>>, <<2, 29>>, <<3, 1>>, <<3, 2>>, <<12, 25>>}
References ==
    {<<2024, 3, 1>>, <<2024, 6, 1>>, <<2025, 12, 20>>, Day2, Day3, <<2026, 3, 3>>}

\* The year inference of adapter k is called, once in a behaviour.
CallParseDate(k, frag, reference) ==
    /\ call.op = "none"
    /\ call' = [NoCall EXCEPT !.op = "parse_date", !.key = k,
                              !.window = <<frag, reference>>,
                              !.raised = parse_date(k, frag, reference).raised,
                              !.result = parse_date(k, frag, reference).value]
    /\ UNCHANGED <<venues, events, seq, today>>
    /\ UNCHANGED runvars

-----------------------------------------------------------------------------
(* The adapters, item by item: scrapers/*.py *)

\* The keys of SCRAPERS in scrapers/__init__.py, all of them, in the order
\* of the dict.
AllScrapers ==
    <<"electricballroom", "earthackney", "jazzcafe", "roundhouse",
      "islingtonassemblyhall", "alexandrapalace", "o2academybrixton",
      "o2forumkentishtown", "koko", "thegarage">>

ScraperKeys == {AllScrapers[i] : i \in 1..Len(AllScrapers)}

\* The class SCRAPERS holds under a key.
ScraperClass(key) ==
    CASE key = "electricballroom"      -> "ElectricBallroomScraper"
      [] key = "earthackney"           -> "EarthAckneyScraper"
      [] key = "jazzcafe"              -> "JazzCafeScraper"
      [] key = "roundhouse"            -> "RoundhouseScraper"
      [] key = "islingtonassemblyhall" -> "IslingtonAssemblyHallScraper"
      [] key = "alexandrapalace"       -> "AlexandraPalaceScraper"
      [] key = "o2academybrixton"      -> "O2AcademyBrixtonScraper"
      [] key = "o2forumkentishtown"    -> "O2ForumKentishTownScraper"
      [] key = "koko"                  -> "KokoScraper"
      [] key = "thegarage"             -> "TheGarageScraper"

\* A plausible slip: a class keeps the venue_key of the file it was copied
\* from.
venue_key_copied(cls) ==
    CASE cls = "ElectricBallroomScraper"      -> "electricballroom"
      [] cls = "EarthAckneyScraper"           -> "earthackney"
      [] cls = "JazzCafeScraper"              -> "jazzcafe"
      [] cls = "RoundhouseScraper"            -> "roundhouse"
      [] cls = "IslingtonAssemblyHallScraper" -> "islingtonassemblyhall"
      [] cls = "AlexandraPalaceScraper"       -> "alexandrapalace"
      [] cls = "O2AcademyBrixtonScraper"      -> "o2academybrixton"
      [] cls = "O2ForumKentishTownScraper"    -> "o2academybrixton"
      [] cls = "KokoScraper"                  -> "koko"
      [] cls = "TheGarageScraper"             -> "thegarage"

\* The class attribute venue_key.
venue_key(cls) ==
    CASE cls = "ElectricBallroomScraper"      -> "electricballroom"
      [] cls = "EarthAckneyScraper"           -> "earthackney"
      [] cls = "JazzCafeScraper"              -> "jazzcafe"
      [] cls = "RoundhouseScraper"            -> "roundhouse"
      [] cls = "IslingtonAssemblyHallScraper" -> "islingtonassemblyhall"
      [] cls = "AlexandraPalaceScraper"       -> "alexandrapalace"
      [] cls = "O2AcademyBrixtonScraper"      -> "o2academybrixton"
      [] cls = "O2ForumKentishTownScraper"    -> "o2forumkentishtown"
      [] cls = "KokoScraper"                  -> "koko"
      [] cls = "TheGarageScraper"             -> "thegarage"

\* The venue_key an adapter writes in its events: self.venue_key, the
\* venue_key _scrape_amg_venue is passed, and in Islington Assembly Hall the
\* literal of _parse_detail.
EventVenueKey(key) ==
    IF key = "islingtonassemblyhall" THEN "islingtonassemblyhall"
    ELSE venue_key(ScraperClass(key))

\* How the adapters get their listing page.
SwallowsListing == {"roundhouse", "islingtonassemblyhall"}
Playwright == {"alexandrapalace", "koko", "thegarage"}

\* What can become of the request for the listing page.
Listings == {"ok", "network_error", "http_error"}

\* A plausible slip: every adapter wraps the request as _get and _fetch do.
ListingRaises_swallow(k, listing) == FALSE

\* The request for the listing page raises out of fetch_events.
\* requests.get with raise_for_status raises on both failures; page.goto
\* raises on a network error and returns the error page of an HTTP error;
\* _fetch and _get catch every exception and return None.
ListingRaises(k, listing) ==
    IF k \in SwallowsListing THEN FALSE
    ELSE IF k \in Playwright THEN listing = "network_error"
    ELSE listing # "ok"

\* An item of the listing: its link, its title, its date as the page gives
\* it (a <<month, day>> fragment for the adapters that infer the year, a
\* full date or None when unreadable for the others) and its start time.
Item(url, title, d, t) == [url |-> url, title |-> title, date |-> d, time |-> t]

ItemDates(k) ==
    IF k \in YearInferring THEN {<<2, 28>>, <<3, 1>>, <<3, 2>>}
    ELSE {Day1, Day2, Day3}

Items(k) ==
    {Item(u, "A", d, t) : u \in {"/e/1", "/e/2"}, d \in ItemDates(k),
                          t \in {None, <<19, 0>>}}

\* Longest listing.
MaxItems == 2

\* The sources a fetch is run on: a listing that arrived with its items, or
\* a failed request.
Sources(k) ==
    {[listing |-> "ok", items |-> s] :
        s \in UNION {[1..n -> Items(k)] : n \in 0..MaxItems}}
    \cup {[listing |-> l, items |-> <<>>] : l \in Listings \ {"ok"}}

\* The date an adapter reads from an item.
ItemDate(k, item, td) ==
    IF k = "jazzcafe" THEN jazzcafe_parse_date(item.date, td)
    ELSE IF k = "electricballroom"
         THEN (IF electricballroom_parse_date(item.date, td).raised THEN Returns(None)
               ELSE electricballroom_parse_date(item.date, td))
    ELSE IF k = "koko" THEN parse_koko_date(item.date, td)
    ELSE Returns(item.date)

\* A plausible slip: the test on today is left out.
Upcoming_all(k, item, td) == ItemDate(k, item, td).value # None

\* if event_date is None or event_date < today: continue
Upcoming(k, item, td) ==
    /\ ItemDate(k, item, td).value # None
    /\ ~DateLess(ItemDate(k, item, td).value, td)

\* The adapters that keep a set of the links seen: on the listing before
\* the date is known (seen, seen_urls), after the date test in KOKO, and on
\* (url, date) in the O2 venues.
SeenOnListing == {"roundhouse", "islingtonassemblyhall", "thegarage"}
O2Venues == {"o2academybrixton", "o2forumkentishtown"}

\* The start time an adapter keeps: KOKO and Alexandra Palace read none,
\* Roundhouse takes midnight for none.
ItemTime(k, item) ==
    IF k \in {"koko", "alexandrapalace"} THEN None
    ELSE IF k = "roundhouse" /\ item.time = <<0, 0>> THEN None
    ELSE item.time

ToEvent(k, item, td) ==
    Event(EventVenueKey(k), item.url, ItemDate(k, item, td).value, ItemTime(k, item),
          item.title, None, None, None, None, FALSE)

\* The events of the items the loop keeps, in the order of the page.
RECURSIVE Kept(_, _, _, _)
Kept(k, items, td, seen) ==
    IF items = <<>> THEN <<>>
    ELSE LET item == Head(items)
             rest == Tail(items)
             mark == IF k \in O2Venues
                     THEN <<item.url, ItemDate(k, item, td).value>> ELSE item.url
         IN  IF k \in SeenOnListing
             THEN (IF mark \in seen THEN Kept(k, rest, td, seen)
                   ELSE IF Upcoming(k, item, td)
                        THEN <<ToEvent(k, item, td)>> \o Kept(k, rest, td, seen \cup {mark})
                        ELSE Kept(k, rest, td, seen \cup {mark}))
             ELSE IF ~Upcoming(k, item, td) THEN Kept(k, rest, td, seen)
             ELSE IF k \in O2Venues \cup {"koko"}
                  THEN (IF mark \in seen THEN Kept(k, rest, td, seen)
                        ELSE <<ToEvent(k, item, td)>> \o Kept(k, rest, td, seen \cup {mark}))
             ELSE <<ToEvent(k, item, td)>> \o Kept(k, rest, td, seen)

\* The adapters that sort on (date, time or time.min), those that sort on
\* the date, and the order the list has before the sort: the order of the
\* page, or in the adapters with a pool of workers the order in which the
\* detail pages arrive.
SortsOnDateTime == {"jazzcafe", "roundhouse", "islingtonassemblyhall", "thegarage"} \cup O2Venues
SortsOnDate == {"koko", "alexandrapalace"}
Pooled == {"jazzcafe", "roundhouse", "islingtonassemblyhall", "thegarage"}

\* A plausible slip: the sort at the end is left out.
SortKeyLess_unsorted(k, a, b) == FALSE

\* The sort key of a is less than that of b.
SortKeyLess(k, a, b) ==
    IF k \in SortsOnDateTime
    THEN \/ DateLess(a.date, b.date)
         \/ /\ a.date = b.date
            /\ TimeLess(IF a.time = None THEN <<0, 0>> ELSE a.time,
                        IF b.time = None THEN <<0, 0>> ELSE b.time)
    ELSE IF k \in SortsOnDate THEN DateLess(a.date, b.date)
    ELSE FALSE

\* The lists list.sort (stable) can leave of the kept events.
Sorted(k, kept) ==
    LET n == Len(kept)
    IN  {[i \in 1..n |-> kept[f[i]]] :
            f \in {g \in [1..n -> 1..n] :
                     /\ \A i, j \in 1..n : i # j => g[i] # g[j]
                     /\ \A i, j \in 1..n :
                           i < j => /\ ~SortKeyLess(k, kept[g[j]], kept[g[i]])
                                    /\ (k \notin Pooled
                                        /\ ~SortKeyLess(k, kept[g[i]], kept[g[j]]))
                                          => g[i] < g[j]}}

\* What fetch_events of adapter k can come to on a source, on day td.
fetch_events(k, src, td) ==
    IF ListingRaises(k, src.listing) THEN {[raised |-> TRUE, events |-> <<>>]}
    ELSE IF src.listing # "ok" THEN {[raised |-> FALSE, events |-> <<>>]}
    ELSE IF k = "jazzcafe"
            /\ \E i \in 1..Len(src.items) : ItemDate(k, src.items[i], td).raised
         THEN {[raised |-> TRUE, events |-> <<>>]}
    ELSE {[raised |-> FALSE, events |-> evs] : evs \in Sorted(k, Kept(k, src.items, td, {}))}

\* fetch_events of adapter k is called, once in a behaviour, on the day the
\* call records in window.
CallFetchEvents(k, src) ==
    /\ call.op = "none"
    /\ \E out \in fetch_events(k, src, today) :
          call' = [NoCall EXCEPT !.op = "fetch_events", !.key = k, !.source = <<src>>,
                                 !.window = <<today>>,
                                 !.raised = out.raised, !.result = out.events]
    /\ UNCHANGED <<venues, events, seq, today>>
    /\ UNCHANGED runvars

NextAdapters ==
    \/ \E k \in ScraperKeys : \E src \in Sources(k) : CallFetchEvents(k, src)
    \/ \E k \in YearInferring, frag \in Fragments, reference \in References :
          CallParseDate(k, frag, reference)
    \/ (call.op = "none" /\ Tick)

SpecAdapters == Init /\ [][NextAdapters]_vars

-----------------------------------------------------------------------------
(* The adapters, field by field: what one source item becomes *)

\* The adapters with an event status in their detail page; The O2 has a
\* scraper class that SCRAPERS does not hold.
ReadsStatus == {"roundhouse", "theo2"}
CardScrapers == ScraperKeys \cup {"theo2"}

\* The adapters whose sold_out comes from a purchase action: the buy button
\* of Electric Ballroom, the ticket CTA of Islington Assembly Hall.
ReadsPurchaseAction == {"electricballroom", "islingtonassemblyhall"}

\* What the source holds for one item.
\*   title:    None (no title element), "" (empty text) or the text
\*   url:      None (no link element), "" (empty href or no slug) or the link
\*   date:     the day of the event
\*   status:   the eventStatus of the detail page
\*   amounts:  the prices on the page in pence, in the order of the page
\*             (lowPrice, highPrice for Roundhouse)
\*   action:   the purchase area: "none" (no button or CTA), "get_tickets",
\*             "waiting_list" and "free" (a button or CTA that reads so),
\*             "sold_out" (the sold-out text or flag)
Titles == {None, <<"">>, <<"A">>}
Links == {None, <<"">>, <<"/e/1">>}
Statuses == {"", "EventCancelled", "EventPostponed"}
Amounts == {<<>>, <<2000>>, <<2550>>, <<2000, 2500>>, <<2500, 2000>>, <<2000, 2000>>}
Actions == {"none", "get_tickets", "waiting_list", "sold_out", "free"}

Cards ==
    [title : Titles, url : Links, date : {Day1, Day3}, status : Statuses,
     amounts : Amounts, action : Actions]

\* Titles and links the code makes up.
SlugTitle == "Slug Title"
VenueEventsUrl == "/events/"

\* The title an adapter gives the item, None when it skips the item.
CardTitle(k, card) ==
    IF k \in {"thegarage", "theo2"}
    THEN (IF card.title \in {None, <<"">>} THEN <<SlugTitle>> ELSE card.title)
    ELSE IF k = "roundhouse"
    THEN (IF card.title = None THEN <<SlugTitle>> ELSE card.title)
    ELSE IF k \in O2Venues \cup {"koko"}
    THEN (IF card.title \in {None, <<"">>} THEN None ELSE card.title)
    ELSE card.title

\* The url an adapter gives the item, None when it skips the item.
CardUrl(k, card) ==
    IF k \in O2Venues
    THEN (IF card.url \in {None, <<"">>} THEN <<VenueEventsUrl>> ELSE card.url)
    ELSE IF k \in {"electricballroom", "earthackney", "jazzcafe"}
    THEN card.url
    ELSE (IF card.url \in {None, <<"">>} THEN None ELSE card.url)

\* f"{float(a):.0f}" on an amount in pence: to the nearest pound, halves to
\* the even pound.
RoundPounds(a) ==
    LET q == a \div 100
        r == a % 100
    IN  IF r > 50 \/ (r = 50 /\ q % 2 = 1) THEN (q + 1) * 100 ELSE q * 100

RECURSIVE MinAmount(_)
MinAmount(amounts) ==
    IF Len(amounts) = 1 THEN amounts[1]
    ELSE LET m == MinAmount(Tail(amounts))
         IN  IF amounts[1] < m THEN amounts[1] ELSE m

\* The price texts: "£a", "From £a", "£a–£b", "Free", and the text of the
\* price element as it stands.
PriceSingle(a) == <<[kind |-> "single", low |-> a, high |-> a]>>
PriceFrom(a) == <<[kind |-> "from", low |-> a, high |-> a]>>
PriceRange(a, b) == <<[kind |-> "range", low |-> a, high |-> b]>>
PriceFree == <<[kind |-> "free", low |-> 0, high |-> 0]>>
PriceVerbatim(amounts) == <<[kind |-> "verbatim", low |-> amounts[1], high |-> amounts[Len(amounts)]]>>

\* The price an adapter stores.
CardPrice(k, card) ==
    LET a == card.amounts
    IN  IF k = "islingtonassemblyhall"
        THEN (IF card.action = "free" THEN PriceFree
              ELSE IF a = <<>> THEN None ELSE PriceSingle(a[1]))
        ELSE IF a = <<>> THEN None
        ELSE IF k = "jazzcafe"
        THEN (IF Len(a) > 1 THEN PriceFrom(RoundPounds(MinAmount(a)))
              ELSE PriceSingle(RoundPounds(MinAmount(a))))
        ELSE IF k = "roundhouse"
        THEN (IF Len(a) > 1 /\ a[2] # a[1]
              THEN PriceRange(RoundPounds(a[1]), RoundPounds(a[2]))
              ELSE PriceFrom(RoundPounds(a[1])))
        ELSE IF k = "thegarage" THEN PriceSingle(RoundPounds(a[1]))
        ELSE IF k = "electricballroom" THEN PriceVerbatim(a)
        ELSE None

\* The sold_out an adapter stores: Electric Ballroom looks for "sold out" in
\* the title and for the buy button, Islington Assembly Hall for "waiting"
\* or "sold" in the CTA, Alexandra Palace for two classes of the card, the
\* others for their sold-out flag.
CardSoldOut(k, card) ==
    IF k = "electricballroom" THEN card.action \in {"sold_out", "none"}
    ELSE IF k \in {"islingtonassemblyhall", "alexandrapalace"}
    THEN card.action \in {"sold_out", "waiting_list"}
    ELSE card.action = "sold_out"

\* The item an adapter reads the date of.
CardItem(k, card) ==
    Item(card.url, card.title,
         IF k \in YearInferring THEN <<card.date[2], card.date[3]>> ELSE card.date, None)

\* A plausible slip: the event status is not looked at.
CardDropped_nostatus(k, card, td) ==
    \/ CardTitle(k, card) = None
    \/ CardUrl(k, card) = None
    \/ ~Upcoming(k, CardItem(k, card), td)

\* The adapter skips the item.
CardDropped(k, card, td) ==
    \/ CardTitle(k, card) = None
    \/ CardUrl(k, card) = None
    \/ ~Upcoming(k, CardItem(k, card), td)
    \/ k \in ReadsStatus /\ card.status \in {"EventCancelled", "EventPostponed"}

\* The events one item yields: none, or one.
parse_card(k, card, td) ==
    IF CardDropped(k, card, td) THEN <<>>
    ELSE <<Event(IF k = "theo2" THEN "theo2" ELSE EventVenueKey(k),
                 CardUrl(k, card)[1], ItemDate(k, CardItem(k, card), td).value, None,
                 CardTitle(k, card)[1], None, None, None, CardPrice(k, card),
                 CardSoldOut(k, card))>>

\* Adapter k reads one item, once in a behaviour.
CallParseCard(k, card) ==
    /\ call.op = "none"
    /\ call' = [NoCall EXCEPT !.op = "parse_card", !.key = k, !.source = <<card>>,
                              !.window = <<today>>,
                              !.result = parse_card(k, card, today)]
    /\ UNCHANGED <<venues, events, seq, today>>
    /\ UNCHANGED runvars

NextCards ==
    \/ \E k \in CardScrapers : \E card \in Cards : CallParseCard(k, card)
    \/ (call.op = "none" /\ Tick)

SpecCards == Init /\ [][NextCards]_vars

-----------------------------------------------------------------------------
(* concertvenues/cli.py: _scrape *)

\* The [venues.<key>] sections of config.toml.
venue_cfg(key) == [city |-> "London", url |-> "https://" \o key]

\* The values of --venue: absent, a registered key, an unregistered key.
VenueArgs == {None, <<"koko">>, <<"unionchapel">>}

\* The keys of SCRAPERS that are in enabled, in the order of SCRAPERS.
RECURSIVE Filter(_, _)
Filter(keys, enabled) ==
    IF keys = <<>> THEN <<>>
    ELSE (IF Head(keys) \in enabled THEN <<Head(keys)>> ELSE <<>>)
         \o Filter(Tail(keys), enabled)

\* targets of _scrape
Targets(enabled, venue) ==
    IF venue # None
    THEN (IF venue[1] \in Registered THEN <<venue[1]>> ELSE <<>>)
    ELSE Filter(SCRAPERS, enabled)

Range(s) == {s[i] : i \in 1..Len(s)}

Terminal == {"Succeeded", "Failed"}

ScrapeStart(enabled, venue) ==
    /\ pc \in {"idle", "done", "exit"}
    /\ enabled_venues' = enabled
    /\ targets' = Targets(enabled, venue)
    /\ pc' = IF venue # None /\ venue[1] \notin Registered THEN "exit"
             ELSE IF targets' = <<>> THEN "done"
             ELSE "loop"
    /\ idx' = 1
    /\ status' = [k \in Registered |-> IF k \in Range(targets') THEN "Pending" ELSE "None"]
    /\ fetched' = <<>>
    /\ pos' = 1
    /\ outcomes' = <<>>
    /\ pruned' = 0
    /\ removed' = 0
    /\ snap' = {}
    /\ committed' = NoCommitted
    /\ UNCHANGED dbvars

\* A plausible slip: a pending venue is started while another one runs.
VenueStart_eager ==
    /\ pc \in {"loop", "venue", "fetch", "upsert"}
    /\ \E j \in 1..Len(targets) :
          /\ status[targets[j]] = "Pending"
          /\ status' = [status EXCEPT ![targets[j]] = "Running"]
          /\ idx' = j
    /\ snap' = {r \in events : r.venue_key = targets[idx']}
    /\ pc' = "venue"
    /\ UNCHANGED <<enabled_venues, targets, fetched, pos, outcomes, pruned, removed, committed>>
    /\ UNCHANGED dbvars

\* The loop takes the next target.
VenueStart ==
    /\ pc = "loop"
    /\ idx <= Len(targets)
    /\ status' = [status EXCEPT ![targets[idx]] = "Running"]
    /\ snap' = {r \in events : r.venue_key = targets[idx]}
    /\ pc' = "venue"
    /\ UNCHANGED <<enabled_venues, targets, idx, fetched, pos, outcomes, pruned, removed, committed>>
    /\ UNCHANGED dbvars

\* A plausible slip: the failed venue is tried again.
Fail_retry ==
    /\ status' = [status EXCEPT ![targets[idx]] = "Failed"]
    /\ outcomes' = Append(outcomes, [venue |-> targets[idx], saved |-> FALSE, n |-> 0])
    /\ fetched' = <<>>
    /\ pos' = 1
    /\ pc' = "loop"
    /\ UNCHANGED <<enabled_venues, targets, idx, pruned, removed, snap, committed>>

\* A plausible slip: a failure ends the loop.
Fail_abort ==
    /\ status' = [status EXCEPT ![targets[idx]] = "Failed"]
    /\ outcomes' = Append(outcomes, [venue |-> targets[idx], saved |-> FALSE, n |-> 0])
    /\ idx' = Len(targets) + 1
    /\ fetched' = <<>>
    /\ pos' = 1
    /\ pc' = "loop"
    /\ UNCHANGED <<enabled_venues, targets, pruned, removed, snap, committed>>

\* except Exception: the venue's FAILED line, then the next target.
Fail ==
    /\ status' = [status EXCEPT ![targets[idx]] = "Failed"]
    /\ outcomes' = Append(outcomes, [venue |-> targets[idx], saved |-> FALSE, n |-> 0])
    /\ idx' = idx + 1
    /\ fetched' = <<>>
    /\ pos' = 1
    /\ pc' = "loop"
    /\ UNCHANGED <<enabled_venues, targets, pruned, removed, snap, committed>>

UpsertVenue ==
    /\ pc = "venue"
    /\ LET key == targets[idx]
           c   == IF key \in enabled_venues THEN venue_cfg(key) ELSE [city |-> "", url |-> ""]
       IN  venues' = upsert_venue(venues, Venue(key, venue_name(key), c.city, c.url))
    /\ pc' = "fetch"
    /\ UNCHANGED <<events, seq, today, call>>
    /\ UNCHANGED <<enabled_venues, targets, idx, status, fetched, pos, outcomes, pruned,
                   removed, snap, committed>>

\* upsert_venue raises (sqlite3.Error).
UpsertVenueRaises ==
    /\ pc = "venue"
    /\ Fail
    /\ UNCHANGED dbvars

\* fetch_events returns a list.
FetchReturns ==
    /\ pc = "fetch"
    /\ \E evs \in FetchResults(targets[idx], today) :
          /\ seq + Len(evs) <= MaxId
          /\ fetched' = evs
    /\ pos' = 1
    /\ pc' = "upsert"
    /\ UNCHANGED <<enabled_venues, targets, idx, status, outcomes, pruned, removed, snap, committed>>
    /\ UNCHANGED dbvars

\* fetch_events raises.
FetchRaises ==
    /\ pc = "fetch"
    /\ Fail
    /\ UNCHANGED dbvars

\* The events of set evs, event e taking the place of one with its URL.
Commit(evs, e) == {x \in evs : x.url # e.url} \cup {e}

UpsertNext ==
    /\ pc = "upsert"
    /\ pos <= Len(fetched)
    /\ events' = upsert_event(events, seq + 1, fetched[pos])
    /\ seq' = next_seq(seq)
    /\ pos' = pos + 1
    /\ committed' = [committed EXCEPT ![targets[idx]] = Commit(@, fetched[pos])]
    /\ UNCHANGED <<venues, today, call>>
    /\ UNCHANGED <<pc, enabled_venues, targets, idx, status, fetched, outcomes, pruned, removed, snap>>

\* upsert_event raises (sqlite3.Error) before it writes.
UpsertRaises ==
    /\ pc = "upsert"
    /\ pos <= Len(fetched)
    /\ Fail
    /\ UNCHANGED dbvars

\* A plausible slip: a successful venue is synchronised, its stored events
\* that the fetch did not return are deleted.
VenueSaved_sync ==
    /\ pc = "upsert"
    /\ pos > Len(fetched)
    /\ events' = {r \in events :
                     r.venue_key = targets[idx] =>
                        \E i \in 1..Len(fetched) : fetched[i].url = r.url}
    /\ status' = [status EXCEPT ![targets[idx]] = "Succeeded"]
    /\ outcomes' = Append(outcomes, [venue |-> targets[idx], saved |-> TRUE, n |-> Len(fetched)])
    /\ idx' = idx + 1
    /\ fetched' = <<>>
    /\ pos' = 1
    /\ pc' = "loop"
    /\ UNCHANGED <<enabled_venues, targets, pruned, removed, snap, committed>>
    /\ UNCHANGED <<venues, seq, today, call>>

\* The for loop over events ends: "<n> events saved."
VenueSaved ==
    /\ pc = "upsert"
    /\ pos > Len(fetched)
    /\ status' = [status EXCEPT ![targets[idx]] = "Succeeded"]
    /\ outcomes' = Append(outcomes, [venue |-> targets[idx], saved |-> TRUE, n |-> Len(fetched)])
    /\ idx' = idx + 1
    /\ fetched' = <<>>
    /\ pos' = 1
    /\ pc' = "loop"
    /\ UNCHANGED <<enabled_venues, targets, pruned, removed, snap, committed>>
    /\ UNCHANGED dbvars

\* for event in events: upsert_event(conn, event), as one function of the
\* table, the sequence and the list.
RECURSIVE UpsertAll(_, _, _)
UpsertAll(rows, sq, evs) ==
    IF evs = <<>> THEN rows
    ELSE UpsertAll(upsert_event(rows, sq + 1, Head(evs)), next_seq(sq), Tail(evs))

\* A plausible slip: the prune does not wait for the end of the loop.
PrunePass_early ==
    /\ pc = "loop"
    /\ events' = delete_past_events(events, today)
    /\ removed' = rowcount(events, today)
    /\ pruned' = pruned + 1
    /\ pc' = "done"
    /\ snap' = {}
    /\ UNCHANGED <<venues, seq, today, call>>
    /\ UNCHANGED <<enabled_venues, targets, idx, status, fetched, pos, outcomes, committed>>

\* After the loop: delete_past_events, then _scrape returns.
PrunePass ==
    /\ pc = "loop"
    /\ idx > Len(targets)
    /\ events' = delete_past_events(events, today)
    /\ removed' = rowcount(events, today)
    /\ pruned' = pruned + 1
    /\ pc' = "done"
    /\ snap' = {}
    /\ UNCHANGED <<venues, seq, today, call>>
    /\ UNCHANGED <<enabled_venues, targets, idx, status, fetched, pos, outcomes, committed>>

VenueStep ==
    \/ VenueStart
    \/ UpsertVenue
    \/ UpsertVenueRaises
    \/ FetchReturns
    \/ FetchRaises
    \/ UpsertNext
    \/ UpsertRaises
    \/ VenueSaved

Next ==
    \/ \E enabled \in SUBSET Registered, venue \in VenueArgs : ScrapeStart(enabled, venue)
    \/ VenueStep
    \/ PrunePass
    \/ Tick

Spec == Init /\ [][Next]_vars

\* The first scrape run on a new store, and nothing after it.
NextFirstRun ==
    \/ /\ pc = "idle"
       /\ \E enabled \in SUBSET Registered, venue \in VenueArgs : ScrapeStart(enabled, venue)
    \/ VenueStep
    \/ PrunePass

SpecFirstRun == Init /\ [][NextFirstRun]_vars

\* The keys config.toml can have a [venues.<key>] section for.
ConfigKeys == Registered \cup Unsupported

\* The first scrape run on a new store, with a config.toml that may enable
\* the placeholder venues.
NextAnyConfig ==
    \/ /\ pc = "idle"
       /\ \E enabled \in SUBSET ConfigKeys, venue \in VenueArgs : ScrapeStart(enabled, venue)
    \/ VenueStep
    \/ PrunePass

SpecAnyConfig == Init /\ [][NextAnyConfig]_vars

\* The run goes on: every statement of the loop completes, and every fetch
\* returns or raises.
-----------------------------------------------------------------------------
(* The site generator: generator/build.py *)

\* The venues the site is built for.
SiteVenues ==
    {Venue(k, venue_name(k), venue_cfg(k).city, venue_cfg(k).url) : k \in Registered}

\* a < b on the venue names, as str and SQLite's BINARY collation order them
NameLess(a, b) == a = "Jazz Cafe" /\ b = "KOKO"

\* The lists get_all_venues can return: SELECT ... FROM venues ORDER BY name
get_all_venues(rows) ==
    LET n == Cardinality(rows)
    IN  {f \in [1..n -> rows] :
            /\ \A i, j \in 1..n : i # j => f[i] # f[j]
            /\ \A i, j \in 1..n : i < j => ~NameLess(f[j].name, f[i].name)}

\* time.strftime("%H:%M")
strftime_hm(t) == Pad2(t[1]) \o <<Colon>> \o Pad2(t[2])

\* _event_to_dict(event, venues.get(event.venue_key))
event_to_dict(event, vlist) ==
    LET found == {i \in 1..Len(vlist) : vlist[i].key = event.venue_key}
        venue == IF found = {} THEN None ELSE <<vlist[CHOOSE i \in found : TRUE]>>
    IN  [id          |-> event.id,
         title       |-> event.title,
         url         |-> event.url,
         date        |-> isoformat_date(event.date),
         time        |-> IF event.time # None THEN strftime_hm(event.time) ELSE None,
         time_of_day |-> IF event.time = None THEN "unknown"
                         ELSE IF event.time[1] >= 17 THEN "evening" ELSE "daytime",
         price       |-> event.price,
         sold_out    |-> event.sold_out,
         venue_key   |-> event.venue_key,
         venue_name  |-> IF venue # None THEN venue[1].name ELSE event.venue_key,
         venue_url   |-> IF venue # None THEN <<venue[1].url>> ELSE None]

\* _build_months: the months from today's to that of today + days_ahead
\* (the weeks of a month are a function of the month and of today).
RECURSIVE MonthsFrom(_, _, _)
MonthsFrom(y, m, to_date) ==
    IF y > to_date[1] \/ (y = to_date[1] /\ m > to_date[2]) THEN <<>>
    ELSE <<[year |-> y, month |-> m]>>
         \o MonthsFrom(IF m = 12 THEN y + 1 ELSE y, IF m = 12 THEN 1 ELSE m + 1, to_date)

build_months(td, days_ahead) ==
    MonthsFrom(td[1], td[2], fromordinal(toordinal(td) + days_ahead))

\* The venues, in the order of get_all_venues, that have an event in the list.
RECURSIVE venue_list(_, _)
venue_list(vlist, evs) ==
    IF vlist = <<>> THEN <<>>
    ELSE (IF \E i \in 1..Len(evs) : evs[i].venue_key = Head(vlist).key
          THEN <<[key |-> Head(vlist).key, name |-> Head(vlist).name]>> ELSE <<>>)
         \o venue_list(Tail(vlist), evs)

\* What build_site can render from the store on day td: the context of
\* index.html.
build_site(vrows, erows, td, days_ahead) ==
    {[today       |-> isoformat_date(td),
      months      |-> build_months(td, days_ahead),
      events_json |-> [i \in 1..Len(evs) |-> event_to_dict(evs[i], vlist)],
      venue_list  |-> venue_list(vlist, evs)] :
        evs \in get_upcoming_events(erows, td, None, days_ahead),
        vlist \in get_all_venues(vrows)}

\* A plausible slip: the build prunes the store before it reads it.
CallBuildSite_pruning(days_ahead) ==
    /\ events' = delete_past_events(events, today)
    /\ \E page \in build_site(venues, events', today, days_ahead) :
          call' = [NoCall EXCEPT !.op = "build_site", !.window = <<days_ahead>>,
                                 !.result = <<page>>]
    /\ UNCHANGED <<venues, seq, today>>
    /\ UNCHANGED runvars

\* build_site is called with days_ahead of the [site] table; window records
\* days_ahead and result the page.
CallBuildSite(days_ahead) ==
    /\ \E page \in build_site(venues, events, today, days_ahead) :
          call' = [NoCall EXCEPT !.op = "build_site", !.window = <<days_ahead>>,
                                 !.result = <<page>>]
    /\ UNCHANGED <<venues, events, seq, today>>
    /\ UNCHANGED runvars

NextSite ==
    \/ \E venue \in SiteVenues : CallUpsertVenue(venue)
    \/ \E event \in EventInputs : CallUpsertEvent(event)
    \/ \E days_ahead \in 0..MaxDaysAhead : CallBuildSite(days_ahead)

SpecSite == Init /\ [][NextSite]_vars

-----------------------------------------------------------------------------
SpecLive == Spec /\ WF_vars(VenueStep \/ PrunePass)

-----------------------------------------------------------------------------
(* Claims about the store *)

\* None sorts as the earliest time of its day.
TimeBefore(t1, t2) ==
    IF t1 = None THEN t2 # None ELSE (t2 # None /\ TimeLess(t1, t2))

\* C1: upsert_event is idempotent. Once upsert_event(E) has been called, the
\* store holds exactly one row with E's dedup key, and a second
\* upsert_event(E) leaves the table as it is, that row's id included,
\* whatever rowid the engine would give a new row.
C1_UpsertIdempotent ==
    call.op = "upsert_event" =>
        LET e == call.event[1]
            p == EventParams(e)
        IN  /\ Cardinality(Conflict(events, p)) = 1
            /\ \A id \in (seq + 1)..(MaxId + 1) :
                  /\ upsert_event(events, id, e) = events
                  /\ {r.id : r \in Conflict(upsert_event(events, id, e), p)}
                        = {r.id : r \in Conflict(events, p)}

\* A first upsert_event(E) has inserted E beside another row.
C1_Witness ==
    /\ call.op = "upsert_event"
    /\ ~call.hit
    /\ Cardinality(events) = 2

\* C2: when a row with the event's (venue_key, url) exists, upsert_event
\* replaces the eight other fields by the incoming values (None included),
\* keeps the row's id and dedup key, keeps the number of rows and leaves
\* every other row as it was.
C2_UpsertFreshness ==
    [][\A e \in EventInputs :
          (CallUpsertEvent(e) /\ Conflict(events, EventParams(e)) # {}) =>
              LET p   == EventParams(e)
                  old == CHOOSE r \in Conflict(events, p) : TRUE
                  now == Conflict(events', p)
              IN  /\ Cardinality(now) = 1
                  /\ \A r \in now :
                        /\ r.id = old.id
                        /\ r.venue_key = old.venue_key
                        /\ r.url = old.url
                        /\ row_to_event(r) = [id |-> old.id] @@ e
                  /\ Cardinality(events') = Cardinality(events)
                  /\ events' \ now = events \ {old}]_vars

\* An upsert_event has met an existing row that held other values.
C2_Witness ==
    /\ call.op = "upsert_event"
    /\ call.hit
    /\ call.event[1].price = None
    /\ Cardinality(events) = 2

\* C3: delete_past_events removes exactly the events dated before today,
\* leaves the events of today and later and the venues as they are, returns
\* the number of rows removed, and changes nothing and returns 0 when no
\* event is in the past.
C3_Pruning ==
    [][CallDeletePastEvents =>
          /\ events' = {r \in events : ~DateLess(row_to_event(r).date, today)}
          /\ venues' = venues
          /\ call'.count = Cardinality(events \ events')
          /\ (\A r \in events : ~DateLess(row_to_event(r).date, today))
                => (events' = events /\ call'.count = 0)]_vars

\* delete_past_events has removed a row and left one dated today.
C3_Witness ==
    /\ call.op = "delete_past_events"
    /\ call.count >= 1
    /\ venues # {}
    /\ \E r \in events : row_to_event(r).date = today

\* C10: get_upcoming_events returns stored events ordered by date ascending
\* and, within one date, by time ascending, an event with no time before
\* every timed event of that date.
C10_QueryOrdered ==
    call.op = "get_upcoming_events" =>
        /\ \A i \in 1..Len(call.result) :
              \E r \in events : row_to_event(r) = call.result[i]
        /\ \A i, j \in 1..Len(call.result) :
              i < j =>
                 LET a == call.result[i]
                     b == call.result[j]
                 IN  /\ ~DateLess(b.date, a.date)
                     /\ a.date = b.date => ~TimeBefore(b.time, a.time)

\* The query returned [Day1 23:00, Day2 with no time, Day2 08:00].
C10_Witness ==
    /\ call.op = "get_upcoming_events"
    /\ Len(call.result) = 3
    /\ call.result[1].date = Day1 /\ call.result[1].time = <<23, 0>>
    /\ call.result[2].date = Day2 /\ call.result[2].time = None
    /\ call.result[3].date = Day2 /\ call.result[3].time = <<8, 0>>

\* The store of the spec's windowing example: events on 2026-02-01,
\* 2026-02-10, 2026-02-11 and 2026-02-15, upserted in that order.
ExampleRows ==
    LET e1 == Bare("koko", "/e/1", <<2026, 2, 1>>, None)
        e2 == Bare("koko", "/e/2", <<2026, 2, 10>>, None)
        e3 == Bare("koko", "/e/3", <<2026, 2, 11>>, None)
        e4 == Bare("koko", "/e/4", <<2026, 2, 15>>, None)
    IN  upsert_event(upsert_event(upsert_event(upsert_event({}, 1, e1), 2, e2), 3, e3), 4, e4)

\* C11: get_upcoming_events(from_date, days_ahead) returns exactly the stored
\* events dated from from_date (today when None) to from_date + days_ahead,
\* both days included, each once; from 2026-02-01 with 10 days ahead the
\* events of 2026-02-10 and 2026-02-11 are in and the one of 2026-02-15 is out.
C11_QueryWindow ==
    /\ call.op = "get_upcoming_events" =>
          LET from == IF call.window[1] # None THEN call.window[1] ELSE today
              lo   == toordinal(from)
              hi   == lo + call.window[2]
              want == {row_to_event(r) :
                         r \in {x \in events :
                                  LET d == toordinal(row_to_event(x).date)
                                  IN  lo <= d /\ d <= hi}}
          IN  /\ {call.result[i] : i \in 1..Len(call.result)} = want
              /\ Len(call.result) = Cardinality(want)
    /\ {[i \in 1..Len(res) |-> res[i].date] :
            res \in get_upcoming_events(ExampleRows, Day2, <<2026, 2, 1>>, 10)}
          = {<< <<2026, 2, 1>>, <<2026, 2, 10>>, <<2026, 2, 11>> >>}

\* A query from Day1 with one day ahead returned the events of Day1 and of
\* Day2 and left out a stored event of Day3.
C11_Witness ==
    /\ call.op = "get_upcoming_events"
    /\ call.window = <<Day1, 1>>
    /\ \E i, j \in 1..Len(call.result) :
          call.result[i].date = Day1 /\ call.result[j].date = Day2
    /\ \E r \in events : row_to_event(r).date = Day3

-----------------------------------------------------------------------------
(* Claims about the scrape run *)

EventsOf(rows, key) == {r \in rows : r.venue_key = key}

Selected == Range(targets)

\* C4: a venue that fails does not stop the others. Every event committed
\* for a venue in the run is in the store with the values its adapter
\* returned, whatever the other venues did, and when the run is over every
\* selected venue has run (none is left pending behind a failed one).
C4_Isolation ==
    /\ \A b \in Registered :
          \A e \in committed[b] :
             \E r \in events :
                /\ r.venue_key = b
                /\ r.url = e.url
                /\ row_to_event(r) = [id |-> r.id] @@ e
    /\ pc = "done" => \A k \in Selected : status[k] \in Terminal

\* Jazz Cafe failed first, KOKO then ran and its events are stored.
C4_Witness ==
    /\ pc = "done"
    /\ targets = <<"jazzcafe", "koko">>
    /\ status["jazzcafe"] = "Failed"
    /\ status["koko"] = "Succeeded"
    /\ committed["koko"] # {}

\* C5: right after a venue's run ended in Failed, the venue's stored events
\* are what they were when its run started.
C5_FailedVenueUntouched ==
    \A k \in Registered :
        (pc = "loop" /\ idx > 1 /\ targets[idx - 1] = k /\ status[k] = "Failed")
            => EventsOf(events, k) = EventsOf(snap, k)

\* C6: every stored event's venue_key is the key of a venue row, and while a
\* venue's events are upserted its venue row is there.
C6_Referential ==
    /\ \A r \in events : \E v \in venues : v.key = r.venue_key
    /\ pc = "upsert" => \E v \in venues : v.key = targets[idx]

\* A run with a failed venue has pruned a row and events of both venues are
\* stored.
C6_Witness ==
    /\ pc = "done"
    /\ removed >= 1
    /\ \E k \in Selected : status[k] = "Failed"
    /\ \A k \in Registered : EventsOf(events, k) # {}

\* The outcomes printed for venue k.
OutcomesOf(k) == {i \in 1..Len(outcomes) : outcomes[i].venue = k}

\* C7: in a run a selected venue goes Pending -> Running -> Succeeded (with
\* the number of events fetched) or Failed, a terminal venue stays as it is
\* until the next run starts, one outcome is printed per venue that
\* reached a terminal state, and every run that has entered the loop
\* brings every selected venue to a terminal state and returns.
C7_VenueStateMachine ==
    /\ [][\A k \in Registered :
             status'[k] # status[k] =>
                \/ pc \in {"idle", "done", "exit"}
                \/ /\ <<status[k], status'[k]>> \in
                         {<<"Pending", "Running">>, <<"Running", "Succeeded">>,
                          <<"Running", "Failed">>}
                   /\ status'[k] = "Succeeded" =>
                         outcomes' = Append(outcomes,
                             [venue |-> k, saved |-> TRUE, n |-> Len(fetched)])]_vars
    /\ [](\A k \in Registered :
             /\ Cardinality(OutcomesOf(k)) = IF status[k] \in Terminal THEN 1 ELSE 0
             /\ \A i \in OutcomesOf(k) : outcomes[i].saved <=> status[k] = "Succeeded")
    /\ (pc = "loop") ~> (pc = "done" /\ \A k \in Selected : status[k] \in Terminal)

\* A run of two venues is over, one saved two events and one failed.
C7_Witness ==
    /\ pc = "done"
    /\ Len(outcomes) = 2
    /\ \E i, j \in 1..2 : /\ outcomes[i].saved /\ outcomes[i].n = 2
                          /\ ~outcomes[j].saved

C9_EveryRunPrunes ==
    pc \in {"done", "exit"} => pruned = 1

\* C9, amended: a run with at least one target makes exactly one prune pass,
\* after every target is Succeeded or Failed, also when all of them failed;
\* a run with no target makes none.
C9_PruneAfterAllVenues ==
    /\ pruned <= 1
    /\ pruned = 1 => (pc = "done" /\ \A k \in Selected : status[k] \in Terminal)
    /\ (pc = "done" /\ targets # <<>>) => pruned = 1
    /\ (pc \in {"done", "exit"} /\ targets = <<>>) => pruned = 0

\* Both venues failed and the run has pruned.
C9_Witness ==
    /\ pc = "done"
    /\ pruned = 1
    /\ Len(targets) = 2
    /\ \A k \in Selected : status[k] = "Failed"

\* An event as the adapter built it: without the id of the row.
Candidate(ev) == [f \in DOMAIN ev \ {"id"} |-> ev[f]]

\* The loop over the venue's events has upserted the last of them: nothing
\* of the venue's run can fail any more.
AllUpserted == pc = "upsert" /\ pos > Len(fetched)

\* The URLs of a list of events.
UrlsOf(evs) == {evs[i].url : i \in 1..Len(evs)}

\* C12 as stated: when a venue's run succeeds, the stored events of the venue
\* are exactly the candidates of its fetch.
C12_StoreIsLatestFetch ==
    AllUpserted =>
        {Candidate(row_to_event(r)) : r \in EventsOf(events, targets[idx])}
            = Range(fetched)

\* C12, amended: when a venue's run succeeds, every URL of its fetch is
\* stored once with the values of the last candidate that carries it, the
\* venue's rows with other URLs are as they were before the run, the rows
\* that were there keep their ids, and upserting the same list once more
\* leaves the table as it is.
C12_Convergence ==
    AllUpserted =>
        LET k    == targets[idx]
            mine == EventsOf(events, k)
        IN  /\ \A i \in 1..Len(fetched) :
                  (\A j \in (i + 1)..Len(fetched) : fetched[j].url # fetched[i].url)
                     => \E r \in mine : Candidate(row_to_event(r)) = fetched[i]
            /\ \A u \in UrlsOf(fetched) : Cardinality({r \in mine : r.url = u}) = 1
            /\ {r \in mine : r.url \notin UrlsOf(fetched)}
                  = {r \in snap : r.url \notin UrlsOf(fetched)}
            /\ \A r \in snap : \E x \in mine : x.id = r.id /\ x.url = r.url
            /\ UpsertAll(events, seq, fetched) = events

\* A venue's run succeeds with a fetch that changes a stored event and does
\* not name another stored event of the venue.
C12_Witness ==
    /\ AllUpserted
    /\ fetched # <<>>
    /\ \E r \in snap : r.url \notin UrlsOf(fetched)
    /\ \E r \in snap : r.url \in UrlsOf(fetched) /\ r \notin events

\* C13: a stored event, known by its (venue_key, url), leaves the store only
\* in the prune pass and only when its date is before today; every other
\* step of a run, an upsert or a failing venue included, keeps each row with
\* its id and dedup key.
C13_Lifecycle ==
    [][\A r \in events :
          \/ \E x \in events' : x.id = r.id /\ x.venue_key = r.venue_key /\ x.url = r.url
          \/ /\ pruned' = pruned + 1
             /\ DateLess(row_to_event(r).date, today)]_vars

\* A venue's run saved an empty fetch, the venue's stored event stayed, and
\* the prune of that run removed a past event.
C13_Witness ==
    /\ pc = "done"
    /\ removed >= 1
    /\ \E k \in Selected :
          /\ \E i \in OutcomesOf(k) : outcomes[i].saved /\ outcomes[i].n = 0
          /\ EventsOf(events, k) # {}

\* Table venues has a row for key.
HasVenue(rows, key) == \E v \in rows : v.key = key

C15_UnsupportedReportedFailed ==
    \A k \in Unsupported :
        (pc = "done" /\ k \in enabled_venues) =>
            \E i \in 1..Len(outcomes) : outcomes[i].venue = k /\ ~outcomes[i].saved

\* C15, amended: a placeholder adapter's fetch_events never returns a list,
\* and as it is not registered the run never selects it: no outcome is
\* printed for it, neither saved nor failed, also when config.toml enables
\* it, and a run asked for it with --venue exits before any venue is tried
\* and before the prune.
C15_UnsupportedNeverRun ==
    /\ \A k \in Unsupported :
          /\ FetchResults(k, today) = {}
          /\ k \notin Registered
          /\ k \notin Range(targets)
          /\ \A i \in 1..Len(outcomes) : outcomes[i].venue # k
    /\ pc = "exit" => (targets = <<>> /\ outcomes = <<>> /\ pruned = 0 /\ venues = {})

\* config.toml enables Union Chapel and both registered venues; the run is
\* over with the two outcomes of the registered venues.
C15_Witness ==
    /\ pc = "done"
    /\ enabled_venues = Registered \cup {"unionchapel"}
    /\ Len(outcomes) = 2

-----------------------------------------------------------------------------
(* Claims about the adapters *)

\* C16: whenever the request for the listing page fails, fetch_events
\* raises: it does not return a list.
C16_ListingFailureRaises ==
    (call.op = "fetch_events" /\ call.source[1].listing # "ok") => call.raised

\* C17: every adapter is registered under the venue_key of its class, and
\* every event fetch_events returns carries the key the adapter is
\* registered under.
C17_OwnVenueKey ==
    /\ \A key \in ScraperKeys : venue_key(ScraperClass(key)) = key
    /\ call.op = "fetch_events" =>
          \A i \in 1..Len(call.result) : call.result[i].venue_key = call.key

\* Islington Assembly Hall, which writes its key as a literal, returned two
\* events.
C17_Witness ==
    /\ call.op = "fetch_events"
    /\ call.key = "islingtonassemblyhall"
    /\ Len(call.result) = 2

\* C18: no event fetch_events returns is dated before the day of the fetch.
C18_NoPastCandidate ==
    call.op = "fetch_events" =>
        \A i \in 1..Len(call.result) : ~DateLess(call.result[i].date, call.window[1])

\* Jazz Cafe's page listed the day before the fetch and the day of the
\* fetch, and the fetch returned the event of the day alone.
C18_Witness ==
    /\ call.op = "fetch_events"
    /\ call.key = "jazzcafe"
    /\ call.window = <<Day2>>
    /\ Len(call.source[1].items) = 2
    /\ \E i \in 1..2 : call.source[1].items[i].date = <<2, 28>>
    /\ Len(call.result) = 1
    /\ call.result[1].date = Day2

\* C19: for a day and month that are a date of the reference year, the year
\* inference of Jazz Cafe and of Electric Ballroom returns that date, or,
\* when it lies more than 60 days before the reference date, the same day
\* and month of the next year; it never raises.
C19_YearInference ==
    (call.op = "parse_date" /\ call.key \in {"jazzcafe", "electricballroom"}) =>
        LET frag      == call.window[1]
            reference == call.window[2]
            year      == reference[1]
            candidate == <<year, frag[1], frag[2]>>
        IN  ValidDate(year, frag[1], frag[2]) =>
               /\ ~call.raised
               /\ call.result =
                     IF toordinal(reference) - toordinal(candidate) > 60
                     THEN <<year + 1, frag[1], frag[2]>>
                     ELSE candidate
               /\ ValidDate(call.result[1], call.result[2], call.result[3])

-----------------------------------------------------------------------------
(* Claims about the site generator *)

\* Two pages show the same: the same day and months, the same venues, and
\* the same events with the same dates and times at each place of the list
\* (the order of events equal on date and time is SQLite's).
SamePage(p, q) ==
    /\ p.today = q.today
    /\ p.months = q.months
    /\ p.venue_list = q.venue_list
    /\ Len(p.events_json) = Len(q.events_json)
    /\ {p.events_json[i] : i \in 1..Len(p.events_json)}
         = {q.events_json[i] : i \in 1..Len(q.events_json)}
    /\ \A i \in 1..Len(p.events_json) :
          /\ p.events_json[i].date = q.events_json[i].date
          /\ p.events_json[i].time = q.events_json[i].time

-----------------------------------------------------------------------------
(* Claims about the order and the dates of the adapters *)

\* Event a comes strictly before event b by date, then time, no time
\* counted as earliest.
DateTimeBefore(a, b) ==
    \/ DateLess(a.date, b.date)
    \/ /\ a.date = b.date
       /\ TimeLess(IF a.time = None THEN <<0, 0>> ELSE a.time,
                   IF b.time = None THEN <<0, 0>> ELSE b.time)

\* C21: the list fetch_events returns is ordered by date ascending and then
\* by time ascending, whatever the order of the items on the page.
C21_OrderedResult ==
    call.op = "fetch_events" =>
        \A i, j \in 1..Len(call.result) :
            i < j => ~DateTimeBefore(call.result[j], call.result[i])

\* What becomes of an item with fragment frag in adapter k on day reference:
\* the date of its event, or None when the item is dropped.
ItemOutcome(k, frag, reference) ==
    LET out == parse_date(k, frag, reference)
    IN  IF out.raised \/ out.value = None THEN None
        ELSE IF DateLess(out.value, reference) THEN None
        ELSE out.value

\* C22: on the same fragment and reference date, Jazz Cafe, Electric
\* Ballroom and KOKO come to the same outcome: the same date, or the item
\* dropped in all three.
C22_SharedYearPolicy ==
    call.op = "parse_date" =>
        \A k \in YearInferring :
            ItemOutcome(k, call.window[1], call.window[2])
              = ItemOutcome(call.key, call.window[1], call.window[2])

\* C23: the year inference returns a date or no value and never raises,
\* and a fetch whose listing arrived returns.
C23_TotalNormalization ==
    /\ call.op = "parse_date" => ~call.raised
    /\ (call.op = "fetch_events" /\ call.source[1].listing = "ok") => ~call.raised

-----------------------------------------------------------------------------
(* Claims about what one source item becomes *)

\* C24: an item whose title is missing or empty, or whose link is missing,
\* yields no event.
C24_RequiredFields ==
    (call.op = "parse_card"
     /\ (call.source[1].title \in {None, <<"">>} \/ call.source[1].url \in {None, <<"">>}))
        => call.result = <<>>

\* C25: in the adapters that read a purchase action, sold_out is true when
\* the source says sold out or waiting list or has no purchase action, and
\* false when it has the action to get tickets.
C25_Availability ==
    (call.op = "parse_card" /\ call.key \in ReadsPurchaseAction /\ call.result # <<>>) =>
        /\ call.source[1].action \in {"sold_out", "waiting_list", "none"}
              => call.result[1].sold_out
        /\ call.source[1].action = "get_tickets" => ~call.result[1].sold_out

\* C26: in Roundhouse and The O2 an item whose event status is cancelled or
\* postponed yields no event, whatever its date, prices and availability.
C26_CancelledDropped ==
    (call.op = "parse_card" /\ call.key \in ReadsStatus
     /\ call.source[1].status \in {"EventCancelled", "EventPostponed"})
        => call.result = <<>>

\* Roundhouse read a cancelled event of tomorrow that has a title, a link,
\* a price and tickets to get, and returned nothing for it.
C26_Witness ==
    /\ call.op = "parse_card"
    /\ call.key = "roundhouse"
    /\ call.window = <<Day2>>
    /\ call.source[1] = [title |-> <<"A">>, url |-> <<"/e/1">>, date |-> Day3,
                         status |-> "EventCancelled", amounts |-> <<2000>>,
                         action |-> "get_tickets"]
    /\ call.result = <<>>

\* The adapters that store a price.
ReadsPrice ==
    {"jazzcafe", "roundhouse", "islingtonassemblyhall", "thegarage", "electricballroom"}

\* C27: one price found is stored as it is, with no "From"; of several
\* amounts the least is stored after "From"; Roundhouse's low and high
\* price, when they differ, are stored as a range; and the free signal of
\* Islington Assembly Hall gives "Free" whatever amount was found.
C27_PriceNormalization ==
    (call.op = "parse_card" /\ call.key \in ReadsPrice /\ call.result # <<>>) =>
        LET a     == call.source[1].amounts
            price == call.result[1].price
        IN  IF call.key = "islingtonassemblyhall" /\ call.source[1].action = "free"
            THEN price = PriceFree
            ELSE /\ Len(a) = 1 => price = PriceSingle(a[1])
                 /\ (Len(a) > 1 /\ call.key # "roundhouse")
                       => price = PriceFrom(MinAmount(a))
                 /\ (Len(a) > 1 /\ call.key = "roundhouse" /\ a[1] # a[2])
                       => price = PriceRange(a[1], a[2])

-----------------------------------------------------------------------------
(* Claims about the venues a run takes *)

\* C28: in the venue loop of a run, with or without --venue, a venue that
\* is not enabled is never fetched, and its venue row and its events stay
\* as they are.
C28_DisabledUntouched ==
    [][(pc \in {"loop", "venue", "fetch", "upsert"} /\ pruned' = pruned) =>
          \A k \in Registered \ enabled_venues :
              /\ pc' = "fetch" => targets[idx] # k
              /\ {v \in venues' : v.key = k} = {v \in venues : v.key = k}
              /\ EventsOf(events', k) = EventsOf(events, k)]_vars

-----------------------------------------------------------------------------
(* Claims about the list a fetch returns *)

\* C29: no two events of one fetch have the same url (their venue_key is
\* the adapter's), so each of them gets a row of its own.
C29_DistinctUrls ==
    call.op = "fetch_events" =>
        \A i, j \in 1..Len(call.result) :
            i # j => call.result[i].url # call.result[j].url

\* C30: in the adapters with a pool of workers, the list returned for a
\* page is the same in whatever order the detail pages arrive.
C30_OrderIndependent ==
    (call.op = "fetch_events" /\ call.key \in Pooled) =>
        \A out \in fetch_events(call.key, call.source[1], call.window[1]) :
            out.events = call.result

\* C30, as the code has it: in the adapters with a pool of workers, every
\* order in which the detail pages arrive gives the same events, each as
\* often, with the same date and time at each place of the list; the order
\* among events of one date and time is the order of arrival.
C30_OrderUpToTies ==
    (call.op = "fetch_events" /\ call.key \in Pooled) =>
        \A out \in fetch_events(call.key, call.source[1], call.window[1]) :
            /\ out.raised = call.raised
            /\ Len(out.events) = Len(call.result)
            /\ \A i \in 1..Len(call.result) :
                  /\ out.events[i].date = call.result[i].date
                  /\ out.events[i].time = call.result[i].time
                  /\ Cardinality({j \in 1..Len(out.events) : out.events[j] = call.result[i]})
                       = Cardinality({j \in 1..Len(call.result) : call.result[j] = call.result[i]})

\* Roundhouse returned two events of one date and time, and another order
\* of arrival returns them the other way round.
C30_Witness ==
    /\ call.op = "fetch_events"
    /\ call.key = "roundhouse"
    /\ Len(call.result) = 2
    /\ call.result[1].url # call.result[2].url
    /\ call.result[1].date = call.result[2].date
    /\ call.result[1].time = call.result[2].time
    /\ \E out \in fetch_events(call.key, call.source[1], call.window[1]) :
          out.events = <<call.result[2], call.result[1]>>

=============================================================================
